---------------------------- MODULE Spec2Model ----------------------------
(***************************************************************************)
(* A model of update_module_path.py: the bulk rewrite of a Go module path  *)
(* over a working tree, followed by "go mod tidy", "go build ." and a      *)
(* residual scan.                                                          *)
(*                                                                         *)
(* A file is a sequence of bytes (numbers 0..255); a decoded text is a     *)
(* sequence of code points.  Paths and names are strings.                  *)
(***************************************************************************)
EXTENDS Integers, Sequences, FiniteSets, TLC

VARIABLES
    fs,                 \* path -> [kind, data]: the working tree on disk
    fs0,                \* the tree as it was when the current run started
    os_linesep,         \* os.linesep of the platform: <<LF>> or <<CR, LF>>
    pc,                 \* position of main (or of the single call, in SpecFile)
    run,                \* number of the current invocation of the script
    prev_completed,     \* the previous invocation finished its rewrite phase
    files_modified,     \* main's counter
    total_replacements, \* main's counter
    go_files,           \* main's list of collected source files
    idx,                \* next index in go_files / config_files
    processed,          \* sequence of [path, count]: returned calls of this run
    opened_r,           \* paths opened for reading in this run
    opened_w,           \* paths opened for writing in this run
    last,               \* outcome of the latest replace_in_file call
    tidy,               \* outcome of "go mod tidy": none / ok / fail / notfound
    build,              \* outcome of "go build .": none / ok / fail / notfound
    remaining,          \* residual count of the verification scan (-1: not run)
    verdict,            \* what the verification printed: none / ok / warning
    exit_code           \* main's return value (-1: none)

vars == <<fs, fs0, os_linesep, pc, run, prev_completed, files_modified,
          total_replacements, go_files, idx, processed, opened_r, opened_w,
          last, tidy, build, remaining, verdict, exit_code>>

---------------------------------------------------------------------------
(* Bounds of the model. *)

\* Contents of the file of SpecFile are made of at most MaxChunks chunks.
MaxChunks == 3

\* The script is invoked at most MaxRuns times on the same tree.
MaxRuns == 2

---------------------------------------------------------------------------
(* Bytes and the two module paths. *)

LF == 10
CR == 13

\* The two literals share the prefix "github.com/" and the suffix "/crush"
\* and differ in the owner between them.  Each of the four parts is written
\* as one ASCII letter: g = "github.com/", c = "charmbracelet",
\* x = "xinggaoya", h = "/crush".  Like the literals, neither sequence
\* contains the other, and neither has a proper suffix that is a prefix of
\* itself or of the other.
LetterG == 103
LetterC == 99
LetterX == 120
LetterH == 104

old_module == <<LetterG, LetterC, LetterH>>
new_module == <<LetterG, LetterX, LetterH>>

\* Two bytes above 0x7F: 0xC2 0xA9 is the UTF-8 form of U+00A9, while 0xA9
\* (or 0xC2) alone is not valid UTF-8.
ByteC2 == <<194>>
ByteA9 == <<169>>

---------------------------------------------------------------------------
(* Text I/O as open(..., encoding=...) does it. *)

\* bytes.decode('utf-8'), strict, for the one- and two-byte forms.  Every
\* byte the model reads or writes is below 0xE0, so the three- and four-byte
\* forms never start.
RECURSIVE Utf8Decode(_)
Utf8Decode(b) ==
    IF b = <<>> THEN [ok |-> TRUE, text |-> <<>>]
    ELSE IF b[1] < 128
         THEN LET r == Utf8Decode(Tail(b))
              IN  [ok |-> r.ok, text |-> <<b[1]>> \o r.text]
    ELSE IF b[1] \in 194..223 /\ Len(b) >= 2 /\ b[2] \in 128..191
         THEN LET r == Utf8Decode(SubSeq(b, 3, Len(b)))
              IN  [ok |-> r.ok,
                   text |-> <<(b[1] - 192) * 64 + (b[2] - 128)>> \o r.text]
    ELSE [ok |-> FALSE, text |-> <<>>]

\* bytes.decode('latin-1'): byte n is code point n; it cannot fail.
Latin1Decode(b) == [i \in 1..Len(b) |-> b[i]]

\* str.encode('utf-8') raises UnicodeEncodeError on a lone surrogate only.
Utf8Encodable(t) == \A i \in 1..Len(t) : t[i] \notin 55296..57343

RECURSIVE Utf8Encode(_)
Utf8Encode(t) ==
    IF t = <<>> THEN <<>>
    ELSE IF t[1] < 128 THEN <<t[1]>> \o Utf8Encode(Tail(t))
    ELSE IF t[1] < 2048
         THEN <<192 + (t[1] \div 64), 128 + (t[1] % 64)>> \o Utf8Encode(Tail(t))
    ELSE <<224 + (t[1] \div 4096), 128 + ((t[1] \div 64) % 64),
           128 + (t[1] % 64)>> \o Utf8Encode(Tail(t))

Latin1Encodable(t) == \A i \in 1..Len(t) : t[i] < 256
Latin1Encode(t) == [i \in 1..Len(t) |-> t[i]]

\* Reading in text mode with newline=None: "\r\n" and "\r" become "\n".
RECURSIVE UniversalNewlines(_)
UniversalNewlines(t) ==
    IF t = <<>> THEN <<>>
    ELSE IF t[1] = CR
         THEN <<LF>> \o UniversalNewlines(
                  IF Len(t) >= 2 /\ t[2] = LF THEN SubSeq(t, 3, Len(t))
                                             ELSE Tail(t))
    ELSE <<t[1]>> \o UniversalNewlines(Tail(t))

\* Writing in text mode with newline=None: "\n" becomes os.linesep.
RECURSIVE WriteNewlines(_, _)
WriteNewlines(t, linesep) ==
    IF t = <<>> THEN <<>>
    ELSE (IF t[1] = LF THEN linesep ELSE <<t[1]>>)
         \o WriteNewlines(Tail(t), linesep)

\* A count that only tells whether the pattern occurs: 1 or 0.
FindallAtMostOne(pat, s) ==
    IF \E i \in 1..(Len(s) - Len(pat) + 1) : SubSeq(s, i, i + Len(pat) - 1) = pat
    THEN 1 ELSE 0

\* len(re.findall(re.escape(pat), s)): matches found left to right, each
\* search resuming after the previous match.
RECURSIVE FindallCount(_, _)
FindallCount(pat, s) ==
    IF Len(s) < Len(pat) THEN 0
    ELSE IF SubSeq(s, 1, Len(pat)) = pat
         THEN 1 + FindallCount(pat, SubSeq(s, Len(pat) + 1, Len(s)))
    ELSE FindallCount(pat, Tail(s))

\* A replacement of the first match only, as str.replace(old, new, 1).
StrReplaceFirstOnly(s, pat, rep) ==
    IF \E i \in 1..(Len(s) - Len(pat) + 1) : SubSeq(s, i, i + Len(pat) - 1) = pat
    THEN LET i == CHOOSE k \in 1..(Len(s) - Len(pat) + 1) :
                      /\ SubSeq(s, k, k + Len(pat) - 1) = pat
                      /\ \A j \in 1..(k - 1) : SubSeq(s, j, j + Len(pat) - 1) # pat
         IN  SubSeq(s, 1, i - 1) \o rep \o SubSeq(s, i + Len(pat), Len(s))
    ELSE s

\* s.replace(pat, rep): every non-overlapping match, left to right.
RECURSIVE StrReplace(_, _, _)
StrReplace(s, pat, rep) ==
    IF Len(s) < Len(pat) THEN s
    ELSE IF SubSeq(s, 1, Len(pat)) = pat
         THEN rep \o StrReplace(SubSeq(s, Len(pat) + 1, Len(s)), pat, rep)
    ELSE <<s[1]>> \o StrReplace(Tail(s), pat, rep)

---------------------------------------------------------------------------
(* replace_in_file *)

NoCall == [path |-> "", raised |-> FALSE, ret |-> 0, rd |-> FALSE,
           wr |-> FALSE, renc |-> "none", wenc |-> "none", files |-> <<>>]

\* What the variable last keeps of a call's outcome.
Outcome(r) == [path |-> r.path, raised |-> r.raised, ret |-> r.ret,
               rd |-> r.rd, wr |-> r.wr, renc |-> r.renc, wenc |-> r.wenc]

\* A write that happens whatever the count.
ShouldWriteAlways(old_count) == TRUE

\* The guard of the write: "if old_count > 0".
ShouldWrite(old_count) == old_count > 0

\* The encoding the write ends up using: UTF-8 first, latin-1 when UTF-8
\* raises UnicodeEncodeError; the encoding used for reading plays no part.
WriteEncoding(renc, new_content) ==
    IF Utf8Encodable(new_content) THEN "utf-8" ELSE "latin-1"

\* The outcome of replace_in_file(filepath, old_pattern, new_pattern) on the
\* tree fs: whether it raised, what it returned, the tree it leaves.
\*   - open() of a path that is no readable regular file raises an OSError,
\*     which the "except UnicodeDecodeError" clause does not catch;
\*   - the latin-1 read of the fallback cannot fail on a file the first
\*     open() has just opened, so its "except Exception" branch is not taken;
\*   - open(filepath, 'w') truncates the file before anything is encoded.
replace_in_file(filepath, old_pattern, new_pattern) ==
    LET f == fs[filepath] IN
    IF f.kind # "file"
    THEN [NoCall EXCEPT !.path = filepath, !.raised = TRUE, !.files = fs]
    ELSE
    LET u         == Utf8Decode(f.data)
        renc      == IF u.ok THEN "utf-8" ELSE "latin-1"
        content   == UniversalNewlines(IF u.ok THEN u.text
                                               ELSE Latin1Decode(f.data))
        old_count == FindallCount(old_pattern, content)
        read      == [NoCall EXCEPT !.path = filepath, !.rd = TRUE,
                                    !.renc = renc, !.files = fs]
    IN
    IF ShouldWrite(old_count)
    THEN LET new_content == StrReplace(content, old_pattern, new_pattern)
             out  == WriteNewlines(new_content, os_linesep)
             wenc == WriteEncoding(renc, new_content)
         IN  IF wenc = "utf-8"
             THEN [read EXCEPT !.ret = old_count, !.wr = TRUE, !.wenc = wenc,
                     !.files = [fs EXCEPT ![filepath].data = Utf8Encode(out)]]
             ELSE IF Latin1Encodable(out)
             THEN [read EXCEPT !.ret = old_count, !.wr = TRUE, !.wenc = wenc,
                     !.files = [fs EXCEPT ![filepath].data = Latin1Encode(out)]]
             ELSE [read EXCEPT !.raised = TRUE, !.wr = TRUE, !.wenc = wenc,
                     !.files = [fs EXCEPT ![filepath].data = <<>>]]
    ELSE read

---------------------------------------------------------------------------
(* The working tree. *)

\* os.path.join(root, name)
Join(root, name) == root \o "/" \o name

\* name.endswith(suffix)
EndsWith(name, suffix) ==
    /\ Len(name) >= Len(suffix)
    /\ SubSeq(name, Len(name) - Len(suffix) + 1, Len(name)) = suffix

\* The directories of the tree and what os.walk lists in each.  A name the
\* script opens relative to the working directory ("go.mod") is the file
\* Join(".", name).
Listing(root) ==
    CASE root = "."
           -> [dirs  |-> <<"pkg", "vendor">>,
               files |-> <<"README.md", "Taskfile.yaml", "crush", "crush.exe",
                           "crush.json", "crush.json.example", "go.mod",
                           "main.exe", "main.go", "schema.json">>]
      [] root = "./pkg"
           -> [dirs |-> <<"vendor">>, files |-> <<"util.go">>]
      [] root = "./vendor"
           -> [dirs |-> <<>>, files |-> <<"dep.go">>]
      [] root = "./pkg/vendor"
           -> [dirs |-> <<>>, files |-> <<"dep.go">>]

Dirs == {".", "./pkg", "./vendor", "./pkg/vendor"}

Paths == UNION {{Join(d, Listing(d).files[i]) : i \in 1..Len(Listing(d).files)}
                : d \in Dirs}

\* os.path.exists(name), for a name relative to the working directory.
Exists(name) == fs[Join(".", name)].kind # "absent"

RECURSIVE ConcatAll(_)
ConcatAll(ss) == IF ss = <<>> THEN <<>> ELSE Head(ss) \o ConcatAll(Tail(ss))

\* A walk that descends into every directory.
PruneNothing(dirs) == dirs

\* "if 'vendor' in dirs: dirs.remove('vendor')"
PruneVendor(dirs) == SelectSeq(dirs, LAMBDA d : d # "vendor")

\* os.walk('.') with the body's pruning, top down: the (root, files) pairs
\* of the directories it visits, files that exist only.
RECURSIVE os_walk(_)
os_walk(root) ==
    LET l == Listing(root)
        files == SelectSeq(l.files, LAMBDA n : fs[Join(root, n)].kind # "absent")
        dirs  == PruneVendor(l.dirs)
    IN  <<[root |-> root, files |-> files]>>
        \o ConcatAll([i \in 1..Len(dirs) |-> os_walk(Join(root, dirs[i]))])

IsGoName(name) == EndsWith(name, ".go")

\* "for file in files: if file.endswith('.go'): ... os.path.join(root, file)"
\* over the directories a walk visits.
GoPathsOf(walked) ==
    ConcatAll([i \in 1..Len(walked) |->
        LET names == SelectSeq(walked[i].files, IsGoName)
        IN  [j \in 1..Len(names) |-> Join(walked[i].root, names[j])]])

\* The same without the test of the suffix.
AllPathsOf(walked) ==
    ConcatAll([i \in 1..Len(walked) |->
        [j \in 1..Len(walked[i].files) |->
            Join(walked[i].root, walked[i].files[j])]])

\* The list go_files of the rewrite phase.
CollectGoFiles == GoPathsOf(os_walk("."))

\* A verification scan that opens every file of the walk.
VerifyFilesAll == AllPathsOf(os_walk("."))

\* The files the verification scan opens.
VerifyFiles == GoPathsOf(os_walk("."))

config_files == <<"crush.json", "schema.json", "crush.json.example">>

Artifacts == <<"main.exe", "crush", "crush.exe">>

---------------------------------------------------------------------------
(* main *)

\* Counters that count every call as a modification.
AccountEveryCall(replacements) ==
    [files_modified     |-> files_modified + 1,
     total_replacements |-> total_replacements + replacements]

\* "if replacements > 0: files_modified += 1; total_replacements += replacements"
Account(replacements) ==
    IF replacements > 0
    THEN [files_modified     |-> files_modified + 1,
          total_replacements |-> total_replacements + replacements]
    ELSE [files_modified     |-> files_modified,
          total_replacements |-> total_replacements]

\* One call replace_in_file(filepath, old_module, new_module) from main and
\* the accounting that follows it.  An exception the call raises is caught
\* nowhere: the interpreter prints the traceback and exits with status 1.
Invoke(filepath, next_pc, next_idx) ==
    LET r   == replace_in_file(filepath, old_module, new_module)
        acc == Account(r.ret)
    IN  /\ fs' = r.files
        /\ last' = Outcome(r)
        /\ opened_r' = IF r.rd THEN opened_r \cup {filepath} ELSE opened_r
        /\ opened_w' = IF r.wr THEN opened_w \cup {filepath} ELSE opened_w
        /\ IF r.raised
           THEN /\ pc' = "crashed"
                /\ exit_code' = 1
                /\ UNCHANGED <<files_modified, total_replacements, processed, idx>>
           ELSE /\ pc' = next_pc
                /\ idx' = next_idx
                /\ files_modified' = acc.files_modified
                /\ total_replacements' = acc.total_replacements
                /\ processed' = Append(processed,
                                       [path |-> filepath, count |-> r.ret])
                /\ UNCHANGED exit_code
        /\ UNCHANGED <<fs0, os_linesep, run, prev_completed, go_files, tidy,
                       build, remaining, verdict>>

\* A target that does not exist is passed over.
Skip(next_pc, next_idx) ==
    /\ pc' = next_pc
    /\ idx' = next_idx
    /\ UNCHANGED <<fs, fs0, os_linesep, run, prev_completed, files_modified,
                   total_replacements, go_files, processed, opened_r,
                   opened_w, last, tidy, build, remaining, verdict, exit_code>>

StepGoMod ==
    /\ pc = "gomod"
    /\ IF Exists("go.mod")
       THEN Invoke(Join(".", "go.mod"), "walk", idx)
       ELSE Skip("walk", idx)

FindGoFiles ==
    /\ pc = "walk"
    /\ go_files' = CollectGoFiles
    /\ idx' = 1
    /\ pc' = IF CollectGoFiles = <<>> THEN "readme" ELSE "gofiles"
    /\ UNCHANGED <<fs, fs0, os_linesep, run, prev_completed, files_modified,
                   total_replacements, processed, opened_r, opened_w, last,
                   tidy, build, remaining, verdict, exit_code>>

RewriteGoFile ==
    /\ pc = "gofiles"
    /\ idx <= Len(go_files)
    /\ IF idx = Len(go_files)
       THEN Invoke(go_files[idx], "readme", 1)
       ELSE Invoke(go_files[idx], "gofiles", idx + 1)

StepReadme ==
    /\ pc = "readme"
    /\ IF Exists("README.md")
       THEN Invoke(Join(".", "README.md"), "config", 1)
       ELSE Skip("config", 1)

StepConfig ==
    /\ pc = "config"
    /\ idx <= Len(config_files)
    /\ LET next_pc  == IF idx = Len(config_files) THEN "tidy" ELSE "config"
           next_idx == IF idx = Len(config_files) THEN 1 ELSE idx + 1
       IN  IF Exists(config_files[idx])
           THEN Invoke(Join(".", config_files[idx]), next_pc, next_idx)
           ELSE Skip(next_pc, next_idx)

ToolOutcomes == {"ok", "fail", "notfound"}

\* A tidy step that goes on to the build whatever the command reports.
RunTidyGoesOn ==
    /\ pc = "tidy"
    /\ \E rc \in ToolOutcomes :
          /\ tidy' = rc
          /\ pc' = "build"
          /\ UNCHANGED exit_code
    /\ UNCHANGED <<fs, fs0, os_linesep, run, prev_completed, files_modified,
                   total_replacements, go_files, idx, processed, opened_r,
                   opened_w, last, build, remaining, verdict>>

\* subprocess.run(['go', 'mod', 'tidy']): returncode 0, returncode not 0,
\* or FileNotFoundError.
RunTidy ==
    /\ pc = "tidy"
    /\ \E rc \in ToolOutcomes :
          /\ tidy' = rc
          /\ IF rc = "ok"
             THEN pc' = "build" /\ UNCHANGED exit_code
             ELSE pc' = "exited" /\ exit_code' = 1
    /\ UNCHANGED <<fs, fs0, os_linesep, run, prev_completed, files_modified,
                   total_replacements, go_files, idx, processed, opened_r,
                   opened_w, last, build, remaining, verdict>>

\* os.remove of each artifact that exists.
RemoveArtifacts(files) ==
    [p \in DOMAIN files |->
        IF \E i \in 1..Len(Artifacts) : p = Join(".", Artifacts[i])
        THEN [kind |-> "absent", data |-> <<>>]
        ELSE files[p]]

\* A build step that goes on to the verification whatever the command reports.
RunBuildGoesOn ==
    /\ pc = "build"
    /\ \E rc \in ToolOutcomes :
          /\ build' = rc
          /\ fs' = RemoveArtifacts(fs)
          /\ pc' = "verify"
          /\ UNCHANGED exit_code
    /\ UNCHANGED <<fs0, os_linesep, run, prev_completed, files_modified,
                   total_replacements, go_files, idx, processed, opened_r,
                   opened_w, last, tidy, remaining, verdict>>

\* subprocess.run(['go', 'build', '.']) and the removal of the artifacts.
\* The binary a successful build leaves is one of the three names removed.
RunBuild ==
    /\ pc = "build"
    /\ \E rc \in ToolOutcomes :
          /\ build' = rc
          /\ IF rc = "ok"
             THEN /\ fs' = RemoveArtifacts(fs)
                  /\ pc' = "verify"
                  /\ UNCHANGED exit_code
             ELSE /\ pc' = "exited"
                  /\ exit_code' = 1
                  /\ UNCHANGED fs
    /\ UNCHANGED <<fs0, os_linesep, run, prev_completed, files_modified,
                   total_replacements, go_files, idx, processed, opened_r,
                   opened_w, last, tidy, remaining, verdict>>

\* What the scan adds to remaining for one file: the count in its UTF-8
\* text; a file that cannot be opened or decoded is passed ("except: pass").
ResidualIn(filepath) ==
    LET f == fs[filepath]
        u == Utf8Decode(f.data)
    IN  IF f.kind = "file" /\ u.ok
        THEN FindallCount(old_module, UniversalNewlines(u.text))
        ELSE 0

RECURSIVE SumResidual(_)
SumResidual(paths) ==
    IF paths = <<>> THEN 0
    ELSE ResidualIn(Head(paths)) + SumResidual(Tail(paths))

\* The summary, the verification scan, its message and "return 0".
Verify ==
    /\ pc = "verify"
    /\ LET scanned == VerifyFiles
           n       == SumResidual(scanned)
       IN  /\ remaining' = n
           /\ verdict' = IF n = 0 THEN "ok" ELSE "warning"
           /\ opened_r' = opened_r \cup
                  {scanned[i] : i \in {j \in 1..Len(scanned) :
                                          fs[scanned[j]].kind = "file"}}
    /\ exit_code' = 0
    /\ pc' = "exited"
    /\ UNCHANGED <<fs, fs0, os_linesep, run, prev_completed, files_modified,
                   total_replacements, go_files, idx, processed, opened_w,
                   last, tidy, build>>

\* The script is started again on the tree the previous run left.
Rerun ==
    /\ pc \in {"exited", "crashed"}
    /\ run < MaxRuns
    /\ run' = run + 1
    /\ prev_completed' = (pc = "exited")
    /\ fs0' = fs
    /\ pc' = "gomod"
    /\ files_modified' = 0
    /\ total_replacements' = 0
    /\ go_files' = <<>>
    /\ idx' = 1
    /\ processed' = <<>>
    /\ opened_r' = {}
    /\ opened_w' = {}
    /\ last' = Outcome(NoCall)
    /\ tidy' = "none"
    /\ build' = "none"
    /\ remaining' = -1
    /\ verdict' = "none"
    /\ exit_code' = -1
    /\ UNCHANGED <<fs, os_linesep>>

---------------------------------------------------------------------------
(* The initial trees. *)

Absent == [kind |-> "absent", data |-> <<>>]
File(data) == [kind |-> "file", data |-> data]
\* A file that exists and cannot be opened (no permission).
NoPerm(data) == [kind |-> "noperm", data |-> data]

Plain       == <<LetterX, LF>>
One         == old_module \o <<LF>>
Two         == old_module \o <<CR, LF>> \o old_module
Done        == new_module \o <<LF>>
Legacy      == ByteA9 \o old_module
LegacyPlain == ByteA9 \o <<CR, LF>>

LineSeps == {<<LF>>, <<CR, LF>>}

StartOfRun ==
    /\ fs0 = fs
    /\ run = 1
    /\ prev_completed = FALSE
    /\ files_modified = 0
    /\ total_replacements = 0
    /\ go_files = <<>>
    /\ idx = 1
    /\ processed = <<>>
    /\ opened_r = {}
    /\ opened_w = {}
    /\ last = Outcome(NoCall)
    /\ tidy = "none"
    /\ build = "none"
    /\ remaining = -1
    /\ verdict = "none"
    /\ exit_code = -1

Init ==
    /\ os_linesep \in LineSeps
    /\ \E gomod \in {Absent, File(One), NoPerm(One)},
          maingo \in {File(Plain), File(One), File(Two), File(Done),
                      File(Legacy), NoPerm(One)},
          utilgo \in {Absent, File(One), File(Legacy), File(LegacyPlain)},
          readme \in {Absent, File(One), NoPerm(Plain)},
          crushjson \in {Absent, File(One)},
          example \in {File(Two), NoPerm(One)},
          taskfile \in {Absent, File(One)} :
          fs = [p \in Paths |->
                  CASE p = "./go.mod"             -> gomod
                    [] p = "./main.go"            -> maingo
                    [] p = "./pkg/util.go"        -> utilgo
                    [] p = "./README.md"          -> readme
                    [] p = "./crush.json"         -> crushjson
                    [] p = "./schema.json"        -> File(Plain)
                    [] p = "./crush.json.example" -> example
                    [] p = "./Taskfile.yaml"      -> taskfile
                    [] p = "./vendor/dep.go"      -> File(One)
                    [] p = "./pkg/vendor/dep.go"  -> File(Legacy)
                    [] p = "./crush.exe"          -> File(<<LetterX>>)
                    [] OTHER                      -> Absent]
    /\ pc = "gomod"
    /\ StartOfRun

Next ==
    \/ StepGoMod
    \/ FindGoFiles
    \/ RewriteGoFile
    \/ StepReadme
    \/ StepConfig
    \/ RunTidy
    \/ RunBuild
    \/ Verify
    \/ Rerun

Spec == Init /\ [][Next]_vars

---------------------------------------------------------------------------
(* One call of replace_in_file on one file of arbitrary content. *)

Chunks == {<<LetterG>>, <<LetterC>>, <<LetterX>>, <<LetterH>>, <<LF>>, <<CR>>,
           ByteC2, ByteA9, old_module, new_module}

RECURSIVE ChunkSeqs(_)
ChunkSeqs(n) ==
    IF n = 0 THEN {<<>>}
    ELSE ChunkSeqs(n - 1) \cup {c \o s : c \in Chunks, s \in ChunkSeqs(n - 1)}

Contents == ChunkSeqs(MaxChunks)

TheFile == "./main.go"

InitFile ==
    /\ os_linesep \in LineSeps
    /\ \E data \in Contents :
          fs = [p \in Paths |-> IF p = TheFile THEN File(data) ELSE Absent]
    /\ pc = "call"
    /\ StartOfRun

CallReplace ==
    /\ pc = "call"
    /\ Invoke(TheFile, "returned", idx)

NextFile == CallReplace

SpecFile == InitFile /\ [][NextFile]_vars

---------------------------------------------------------------------------
(* Properties. *)

\* The number of places of a byte sequence at which a pattern occurs.
Occ(pat, bytes) ==
    Cardinality({i \in 1..(Len(bytes) - Len(pat) + 1) :
                    SubSeq(bytes, i, i + Len(pat) - 1) = pat})

\* The path lies under a directory named vendor.
UnderVendor(p) ==
    \E i \in 1..(Len(p) - 7) : SubSeq(p, i, i + 7) = "/vendor/"

ArtifactPaths == {Join(".", Artifacts[i]) : i \in 1..Len(Artifacts)}

Before == fs0[TheFile].data
After == fs[TheFile].data

\* C1: a file with N occurrences of the old path and none of the new one:
\* the call returns N and leaves 0 occurrences of the old path and N of the
\* new one.
C1_ReplacesEveryOccurrence ==
    (pc = "returned" /\ Occ(new_module, Before) = 0)
    => /\ ~last.raised
       /\ last.ret = Occ(old_module, Before)
       /\ Occ(old_module, After) = 0
       /\ Occ(new_module, After) = Occ(old_module, Before)

C1_Witness ==
    /\ pc = "returned"
    /\ Occ(new_module, Before) = 0
    /\ Occ(old_module, Before) >= 2
    /\ last.ret = Occ(old_module, Before)
    /\ last.renc = "latin-1"

\* C2: a file with no occurrence of the old path is not opened for writing,
\* keeps its bytes whichever encoding read it, and the call returns 0.
C2_NoMatchNoWrite ==
    (pc = "returned" /\ Occ(old_module, Before) = 0)
    => /\ ~last.wr
       /\ TheFile \notin opened_w
       /\ fs = fs0
       /\ last.ret = 0
       /\ ~last.raised

C2_Witness ==
    /\ pc = "returned"
    /\ Occ(old_module, Before) = 0
    /\ last.rd
    /\ last.renc = "latin-1"
    /\ Occ(<<CR>>, Before) > 0
    /\ After = Before

\* C7: a rewritten file is written with the encoding that read it; a file
\* read with latin-1 keeps every byte outside the replaced occurrences.
C7_WritesWithReadEncoding ==
    (pc = "returned" /\ last.wr)
    => /\ last.wenc = last.renc
       /\ (last.renc = "latin-1"
             => After = StrReplace(Before, old_module, new_module))

\* C3: after a run whose rewrite phase completed, a second run replaces
\* nothing: every call returns 0, both counters stay 0, no file is opened
\* for writing and no file other than a build artifact changes.
C3_SecondRunReplacesNothing ==
    prev_completed
    => /\ files_modified = 0
       /\ total_replacements = 0
       /\ \A i \in 1..Len(processed) : processed[i].count = 0
       /\ opened_w = {}
       /\ pc # "crashed"
       /\ \A p \in Paths \ ArtifactPaths : fs[p] = fs0[p]

C3_Witness ==
    /\ prev_completed
    /\ pc = "tidy"
    /\ Len(processed) >= 4
    /\ fs["./main.go"].data = ByteC2 \o ByteA9 \o new_module
    /\ Occ(new_module, fs["./crush.json.example"].data) = 2

\* C4: when "go mod tidy" exits non-zero, the build is not invoked, no
\* artifact is deleted, the verification scan is not run, and main returns 1.
C4_TidyFailureStops ==
    tidy = "fail"
    => /\ build = "none"
       /\ \A p \in ArtifactPaths : fs[p] = fs0[p]
       /\ remaining = -1
       /\ verdict = "none"
       /\ pc = "exited"
       /\ exit_code = 1

C4_Witness ==
    /\ tidy = "fail"
    /\ pc = "exited"
    /\ fs["./crush.exe"].kind = "file"
    /\ files_modified > 0

\* C5: a run of main that returns has exit code 0 exactly when both commands
\* were found and exited 0, and 1 otherwise; the residual count plays no part.
C5_ExitCode ==
    pc = "exited"
    => /\ exit_code \in {0, 1}
       /\ (exit_code = 0 <=> (tidy = "ok" /\ build = "ok"))
       /\ (tidy \in {"fail", "notfound"} \/ build \in {"fail", "notfound"}
             => exit_code = 1)

C5_Witness ==
    /\ pc = "exited"
    /\ exit_code = 0
    /\ tidy = "ok"
    /\ build = "ok"
    /\ verdict # "none"

\* C6: no file under a directory named vendor, at any depth, is opened for
\* reading or writing, by the rewrite walk or by the verification scan, and
\* none changes.
C6_VendorUntouched ==
    /\ \A p \in opened_r \cup opened_w : ~UnderVendor(p)
    /\ \A p \in Paths : UnderVendor(p) => fs[p] = fs0[p]

C6_Witness ==
    /\ pc = "exited"
    /\ verdict = "ok"
    /\ "./pkg/util.go" \in opened_w
    /\ "./main.go" \in opened_r
    /\ Occ(old_module, fs["./vendor/dep.go"].data) > 0
    /\ Occ(old_module, fs["./pkg/vendor/dep.go"].data) > 0

\* C8: a target that cannot be read makes replace_in_file return 0 without
\* raising, and main goes on to the next target.
C8_UnreadableIsNotFatal ==
    (last.path # "" /\ fs[last.path].kind = "noperm")
    => /\ ~last.raised
       /\ last.ret = 0
       /\ pc # "crashed"

\* C9 as stated: after both commands succeeded, the message is the warning
\* whenever the old path still occurs in some file of the tree outside the
\* vendor directories, and "all replaced" only when it occurs in none.
C9_WarnsOnAnyResidual ==
    (pc = "exited" /\ verdict # "none")
    => (verdict = "warning"
          <=> \E p \in Paths :
                 /\ ~UnderVendor(p)
                 /\ fs[p].kind # "absent"
                 /\ Occ(old_module, fs[p].data) > 0)

\* C9, amended: after both commands succeeded, the message is the warning
\* exactly when the old path occurs in a readable, UTF-8-decodable file
\* whose name ends in ".go" outside the vendor directories.
C9_WarnsOnGoResidual ==
    (pc = "exited" /\ verdict # "none")
    => (verdict = "warning"
          <=> \E p \in Paths :
                 /\ ~UnderVendor(p)
                 /\ EndsWith(p, ".go")
                 /\ fs[p].kind = "file"
                 /\ Utf8Decode(fs[p].data).ok
                 /\ Occ(old_module, fs[p].data) > 0)

C9_Witness ==
    /\ pc = "exited"
    /\ verdict = "ok"
    /\ build = "ok"
    /\ Occ(old_module, fs["./Taskfile.yaml"].data) > 0
    /\ "./main.go" \in opened_w

RECURSIVE SumCounts(_)
SumCounts(calls) ==
    IF calls = <<>> THEN 0 ELSE Head(calls).count + SumCounts(Tail(calls))

\* C10: files_modified is the number of calls made so far that returned a
\* count above zero, total_replacements the sum of those counts; no target
\* is processed twice in a run; files_modified <= total_replacements.
C10_Counters ==
    /\ files_modified =
          Cardinality({i \in 1..Len(processed) : processed[i].count > 0})
    /\ total_replacements = SumCounts(processed)
    /\ \A i, j \in 1..Len(processed) :
          processed[i].path = processed[j].path => i = j
    /\ files_modified <= total_replacements

C10_Witness ==
    /\ pc = "tidy"
    /\ files_modified >= 3
    /\ total_replacements > files_modified
    /\ \E i \in 1..Len(processed) : processed[i].count = 0

=============================================================================
